---- MODULE Spec2Model ----
(***************************************************************************)
(* Model of the Ghostwriter LangGraph pipeline (src/pipeline.py): one      *)
(* orchestration run of Pipeline.run_agent over the graph built by         *)
(* Pipeline.setup_graph (nodes call_model / call_tool, edge function       *)
(* should_continue), with the argument normalisation done in call_tool.    *)
(*                                                                         *)
(* Library behaviour the code relies on and that the model states:         *)
(*  - app.astream yields one event per executed node, after the node has   *)
(*    run; the next node only runs when the consumer asks for the next     *)
(*    event.                                                               *)
(*  - every response of model_with_tools.ainvoke is an AIMessage, which    *)
(*    always has a tool_calls attribute (an empty list when no tool is     *)
(*    requested); a ToolMessage has no such attribute.                     *)
(*  - the name MCP_AVAILABLE is bound nowhere in pipeline.py, so reading   *)
(*    it raises NameError.                                                 *)
(*  - str.isdigit() accepts the superscript digits, int() rejects them.    *)
(* The recursion limit of the compiled graph (25 supersteps by default) is *)
(* outside the turn budgets explored here.                                 *)
(*                                                                         *)
(* Specifications: Spec / FairSpec (a whole run), SpecNorm, SpecGen and    *)
(* SpecCodename (call_tool on drawn conversations), SpecTool (one          *)
(* invocation of a tool function of src/main.py with the requests it sends *)
(* through src/ghostwriter_api.py), SpecClients (search_ghostwriter_clients *)
(* on the backend's answers), SpecTwo (two interleaved runs). Spec ends    *)
(* with the return of Pipeline.pipe.                                       *)
(***************************************************************************)
EXTENDS Integers, Sequences, FiniteSets, TLC

\* ------------------------------------------------------------------ bounds
\* largest value of valves.MAX_TURNS explored
MaxTurnsBound == 3
\* largest number of ToolCalls in one model response
MaxCalls == 2
\* largest number of earlier tool results in a drawn conversation
MaxHistory == 3

\* largest number of clients the backend returns for one search
MaxRows == 2

\* the default of valves.MAX_TURNS
DefaultMaxTurns == 10

\* ------------------------------------------------------- python values
\* A Python value: None, an int or a str (a sequence of characters).
\* Absent marks a key that a dict does not hold.
Absent == [t |-> "absent", i |-> 0, s |-> <<>>]
None == [t |-> "none", i |-> 0, s |-> <<>>]
PyInt(n) == [t |-> "int", i |-> n, s |-> <<>>]
PyStr(str) == [t |-> "str", i |-> 0, s |-> str]

\* keys of the argument dicts the model can send
Keys == {"search_term", "__arg1", "id", "codename", "clientId"}
EmptyDict == [k \in Keys |-> Absent]
\* the dict {k: v}
Dict1(k, v) == [EmptyDict EXCEPT ![k] = v]
\* the keys a dict holds
DictKeys(d) == {k \in Keys : d[k] # Absent}
\* dict.get(k): None for a missing key
DictGet(d, k) == IF d[k] = Absent THEN None ELSE d[k]

\* truth value of a Python value: None, 0 and "" are falsy
Truthy(v) ==
    CASE v.t = "int" -> v.i # 0
      [] v.t = "str" -> v.s # <<>>
      [] OTHER -> FALSE
\* a or b
PyOr(a, b) == IF Truthy(a) THEN a ELSE b

AsciiDigits == <<"0", "1", "2", "3", "4", "5", "6", "7", "8", "9">>
AsciiDigitSet == {AsciiDigits[n] : n \in 1..10}
\* characters for which str.isdigit() is true but int() fails ("sup2" is U+00B2)
OtherDigitSet == {"sup2"}
DigitValue(c) == (CHOOSE n \in 1..10 : AsciiDigits[n] = c) - 1

\* str.isdigit(): non-empty and every character is a digit character
isdigit(str) ==
    /\ Len(str) > 0
    /\ \A n \in 1..Len(str) : str[n] \in AsciiDigitSet \cup OtherDigitSet

\* int(str) raises ValueError on a character that is no decimal digit
IntRaises(v) == v.t = "str" /\ \E n \in 1..Len(v.s) : v.s[n] \notin AsciiDigitSet

RECURSIVE DecimalValue(_)
DecimalValue(str) ==
    IF str = <<>> THEN 0
    ELSE 10 * DecimalValue(SubSeq(str, 1, Len(str) - 1)) + DigitValue(str[Len(str)])

\* int(v) for an int or a string of decimal digits
int(v) == IF v.t = "int" THEN v.i ELSE DecimalValue(v.s)

\* ------------------------------------------------------------ the tools
ToolNames ==
    {"search_ghostwriter_findings", "search_ghostwriter_reports",
     "search_ghostwriter_clients", "search_ghostwriter_projects",
     "get_ghostwriter_report_by_id", "get_ghostwriter_project_by_id",
     "get_ghostwriter_client_by_id", "generate_ghostwriter_codename",
     "create_ghostwriter_client", "create_ghostwriter_project",
     "create_ghostwriter_report", "attach_finding_to_report",
     "list_report_finding", "update_report_finding", "explain_workflow"}

search_tools ==
    {"search_ghostwriter_clients", "search_ghostwriter_projects",
     "search_ghostwriter_reports", "search_ghostwriter_findings"}

\* ------------------------------------------------------------- messages
\* content of a message: free text, or the text str(result) of a tool result
\* (kept structured: the failing tool, the exception and the arguments)
\* The field codename is the codename value the text holds (Absent when it
\* holds none); where it sits depends on the kind.
TextContent(txt) ==
    [kind |-> "text", text |-> txt, tool |-> "", exc |-> "", args |-> EmptyDict,
     codename |-> Absent]
\* str({"error": f"Failed to call {tool_name}: {str(e)}", "args": tool_args})
ErrorContent(tool_name, e, tool_args) ==
    [kind |-> "error", text |-> "", tool |-> tool_name, exc |-> e, args |-> tool_args,
     codename |-> Absent]
\* str(result) of a dict a tool returned; cn is the value of its top-level
\* "codename" key (Absent when the dict has no such key)
ResultContent(tool_name, cn) ==
    [kind |-> "result", text |-> "", tool |-> tool_name, exc |-> "", args |-> EmptyDict,
     codename |-> cn]
\* str(result) of a list of records a tool returned; each record has a
\* "codename" key, so the word occurs nested in the list
ListContent(tool_name, cn) ==
    [kind |-> "list", text |-> "", tool |-> tool_name, exc |-> "", args |-> EmptyDict,
     codename |-> cn]
\* a text that mentions codename and is no Python literal
GarbageContent(tool_name, cn) ==
    [kind |-> "garbage", text |-> "", tool |-> tool_name, exc |-> "", args |-> EmptyDict,
     codename |-> cn]

\* "codename" in content: the substring test on the text
MentionsCodename(c) ==
    CASE c.kind = "error" ->
            c.tool = "generate_ghostwriter_codename" \/ c.args["codename"] # Absent
      [] c.kind \in {"result", "list", "garbage"} -> c.codename # Absent
      [] OTHER -> FALSE

\* ast.literal_eval(content) raises
ParseRaises(c) == c.kind = "garbage"

\* the keys for which "key in ast.literal_eval(content)" holds and the item
\* can be read: the top-level keys of a dict
ParsedKeys(c) ==
    CASE c.kind = "error" -> {"error", "args"}
      [] c.kind = "result" -> IF c.codename # Absent THEN {"codename"} ELSE {}
      [] OTHER -> {}
\* parsed["codename"]
ParsedCodename(c) == c.codename

HumanMessage(txt) ==
    [type |-> "human", content |-> TextContent(txt), tool_calls |-> <<>>, tool_call_id |-> 0]
AIMessage(txt, calls) ==
    [type |-> "ai", content |-> TextContent(txt), tool_calls |-> calls, tool_call_id |-> 0]
ToolMessage(c, id) ==
    [type |-> "tool", content |-> c, tool_calls |-> <<>>, tool_call_id |-> id]

\* hasattr(message, "tool_calls")
HasToolCallsAttr(m) == m.type = "ai"

\* the fixed answer of run_agent when final_response is empty
Fallback == TextContent("I apologize, but I couldn't process your request properly.")

\* ------------------------------------------------------------ the state
VARIABLES
    maxTurns,        \* valves.MAX_TURNS
    messages,        \* state["messages"] of the graph
    node,            \* the node the graph runs next: "agent", "tool" or "END"
    pc,              \* run_agent: "stream" (awaiting the next event of astream),
                     \* "event" (loop body to run), "done" (returned), "raised"
    event,           \* the event astream has just yielded
    turn_count,      \* run_agent's turn_count
    final_response,  \* run_agent's final_response
    result,          \* the value run_agent returned
    halted,          \* how the run ended: "none", "end", "budget", "exception"
    exc,             \* the exception that left run_agent
    nextId,          \* source of fresh correlation tokens (tool_call ids)
    modelQueries,    \* executions of call_model so far
    toolRuns,        \* executions of call_tool so far
    dispatches,      \* the calls that reached the dispatch try-block, in order
    tool,            \* one invocation of a tool function of main.py
    runs,            \* the runs of run_agent that interleave on one Pipeline
    pipe_response    \* the value Pipeline.pipe returned

vars == <<maxTurns, messages, node, pc, event, turn_count, final_response,
          result, halted, exc, nextId, modelQueries, toolRuns, dispatches,
          tool, runs, pipe_response>>

\* no tool function is being invoked on its own
ToolIdle == [pc |-> "idle"]
\* no second run of run_agent
NoRuns == <<>>

\* cap on the conversation length; a run appends at most MAX_TURNS + 1 messages
MaxMsgs == MaxTurnsBound + 2

\* ------------------------------------------------- the model's responses
Texts == {"", "a1"}

\* the [name, args] pairs the model requests
CallTemplates ==
    { [name |-> "search_ghostwriter_clients", args |-> Dict1("search_term", PyStr(<<"a">>))],
      [name |-> "generate_ghostwriter_codename", args |-> Dict1("__arg1", PyStr(<<"a">>))],
      [name |-> "no_such_tool", args |-> EmptyDict] }

CallBatches == UNION {[1..n -> CallTemplates] : n \in 0..MaxCalls}

\* the ToolCalls of a response: each call gets a fresh id
WithIds(batch, first) ==
    [n \in 1..Len(batch) |->
        [name |-> batch[n].name, args |-> batch[n].args, id |-> first + n - 1]]

NoEvent == [node |-> "none", msg |-> HumanMessage("")]
EmptyText == TextContent("")

\* ------------------------------------------------------- graph functions
should_continue(last_message) ==
    IF HasToolCallsAttr(last_message) /\ last_message.tool_calls # <<>>
    THEN "continue" ELSE "end"

\* the conditional edge after "agent"
AgentEdge(last_message) ==
    IF should_continue(last_message) = "continue" THEN "tool" ELSE "END"

\* a graph whose edge after "tool" leads back to "tool"
ToolEdge_again == "tool"

\* the edge after "tool"
ToolEdge == "agent"

\* a call_tool that acts on the last ToolCall of the batch
SelectToolCall_last(last_message) ==
    last_message.tool_calls[Len(last_message.tool_calls)]

\* call_tool: the ToolCall acted on
SelectToolCall(last_message) == last_message.tool_calls[1]

\* call_tool: the value looked up for a search tool
arg_value(tool_args) ==
    PyOr(PyOr(DictGet(tool_args, "search_term"), DictGet(tool_args, "__arg1")),
         DictGet(tool_args, "id"))

\* isinstance(v, int) or (isinstance(v, str) and v.isdigit())
IsIdLookup(v) == v.t = "int" \/ (v.t = "str" /\ isdigit(v.s))

\* the search normalisation raises when int() rejects the value
NormalizeRaises(tool_name, tool_args) ==
    /\ tool_name \in search_tools
    /\ IsIdLookup(arg_value(tool_args))
    /\ IntRaises(arg_value(tool_args))

\* call_tool: normalised arguments of a search tool
NormalizeSearch(tool_name, tool_args) ==
    IF tool_name \in search_tools
    THEN IF IsIdLookup(arg_value(tool_args))
         THEN Dict1("id", PyInt(int(arg_value(tool_args))))
         ELSE Dict1("search_term", arg_value(tool_args))
    ELSE tool_args

\* call_tool: the messages at which the backward scan can stop
CodenameHits(msgs) ==
    {n \in 1..Len(msgs) :
        /\ msgs[n].type = "tool"
        /\ MentionsCodename(msgs[n].content)
        /\ ~ParseRaises(msgs[n].content)
        /\ "codename" \in ParsedKeys(msgs[n].content)}

\* a scan that runs forward and stops at the oldest hit
CodenameSource_oldest(msgs) ==
    IF CodenameHits(msgs) = {} THEN 0
    ELSE CHOOSE n \in CodenameHits(msgs) : \A m \in CodenameHits(msgs) : n <= m

\* call_tool: position of the newest tool result that carries a codename
\* field (0 when there is none)
CodenameSource(msgs) ==
    IF CodenameHits(msgs) = {} THEN 0
    ELSE CHOOSE n \in CodenameHits(msgs) : \A m \in CodenameHits(msgs) : m <= n

\* a codename special case that makes up a codename when it finds none
RecoverCodename_fabricate(tool_name, tool_args, msgs) ==
    IF /\ tool_name = "create_ghostwriter_project"
       /\ "codename" \notin DictKeys(tool_args)
    THEN [tool_args EXCEPT !["codename"] =
            IF CodenameSource(msgs) # 0
            THEN ParsedCodename(msgs[CodenameSource(msgs)].content)
            ELSE PyStr(<<"UNKNOWN">>)]
    ELSE tool_args

\* call_tool: the codename special case
RecoverCodename(tool_name, tool_args, msgs) ==
    IF /\ tool_name = "create_ghostwriter_project"
       /\ "codename" \notin DictKeys(tool_args)
       /\ CodenameSource(msgs) # 0
    THEN [tool_args EXCEPT !["codename"] = ParsedCodename(msgs[CodenameSource(msgs)].content)]
    ELSE tool_args

\* call_tool: the conversation after the codename special case. For a tool
\* that is no search tool tool_args is the dict held by the ToolCall of the
\* last message, and the special case stores the codename into that dict.
StoreCodename(tool_name, tool_call_args, msgs) ==
    IF tool_name \in search_tools
    THEN msgs
    ELSE [msgs EXCEPT ![Len(msgs)].tool_calls[1].args =
            RecoverCodename(tool_name, tool_call_args, msgs)]

\* a codename generator special case that keeps the model's arguments
OverrideCodenameGenerator_keep(tool_name, tool_args) == tool_args

\* call_tool: the codename generator takes no arguments
OverrideCodenameGenerator(tool_name, tool_args) ==
    IF tool_name = "generate_ghostwriter_codename" THEN EmptyDict ELSE tool_args

\* call_tool: the arguments handed to the dispatch
NormalizedArgs(tool_name, tool_args, msgs) ==
    OverrideCodenameGenerator(tool_name,
        RecoverCodename(tool_name, NormalizeSearch(tool_name, tool_args), msgs))

\* call_tool: the try-block. Reading MCP_AVAILABLE raises NameError before
\* the tool function is reached.
TryBlock(tool_name, tool_args) ==
    [raised |-> TRUE, exc |-> "NameError: name 'MCP_AVAILABLE' is not defined",
     invoked |-> FALSE]

\* an except-clause that leaves the arguments out of the payload
ExceptHandler_noargs(tool_name, e, tool_args) == ErrorContent(tool_name, e, EmptyDict)

\* call_tool: the except-clause builds the error payload
ExceptHandler(tool_name, e, tool_args) == ErrorContent(tool_name, e, tool_args)

\* a loop without the budget check
BudgetExceeded_never(tc, n) == FALSE

\* run_agent: the budget check of the loop
BudgetExceeded(tc, n) == tc > n

\* run_agent: the final_response after an event that passed the budget check
ObserveEvent(ev, fr) ==
    IF ~HasToolCallsAttr(ev.msg) THEN ev.msg.content ELSE fr

\* truth value of a message content (a string)
ContentTruthy(c) == c.kind # "text" \/ c.text # ""

\* a run_agent that returns final_response as it is
ReturnValue_raw(fr) == fr

\* run_agent: the returned value
ReturnValue(fr) == IF ContentTruthy(fr) THEN fr ELSE Fallback

\* pipe has not returned
NoResponse == [EmptyText EXCEPT !.kind = "none"]

\* pipe: f"Error running Ghostwriter agent: {str(e)}"
PipeError(e) ==
    [TextContent("Error running Ghostwriter agent: ") EXCEPT !.kind = "pipe_error", !.exc = e]

\* ----------------------------------------------------------------- Init
Init ==
    /\ maxTurns \in 0..MaxTurnsBound
    /\ messages = <<HumanMessage("q")>>
    /\ node = "agent"
    /\ pc = "stream"
    /\ event = NoEvent
    /\ turn_count = 0
    /\ final_response = EmptyText
    /\ result = EmptyText
    /\ halted = "none"
    /\ exc = "none"
    /\ nextId = 1
    /\ modelQueries = 0
    /\ toolRuns = 0
    /\ dispatches = <<>>
    /\ tool = ToolIdle
    /\ runs = NoRuns
    /\ pipe_response = NoResponse

\* -------------------------------------------------------------- actions
\* node "agent": one model query; the response is the model's choice
call_model ==
    /\ pc = "stream"
    /\ node = "agent"
    /\ Len(messages) < MaxMsgs
    /\ \E txt \in Texts, batch \in CallBatches :
          LET response == AIMessage(txt, WithIds(batch, nextId))
          IN /\ messages' = Append(messages, response)
             /\ event' = [node |-> "agent", msg |-> response]
             /\ node' = AgentEdge(response)
             /\ nextId' = nextId + Len(batch)
    /\ pc' = "event"
    /\ modelQueries' = modelQueries + 1
    /\ UNCHANGED <<maxTurns, turn_count, final_response, result, halted, exc,
                   toolRuns, dispatches, tool, runs, pipe_response>>

\* node "tool"
call_tool ==
    /\ pc = "stream"
    /\ node = "tool"
    /\ toolRuns' = toolRuns + 1
    /\ LET last_message == messages[Len(messages)]
           tool_call == SelectToolCall(last_message)
           tool_name == tool_call.name
       IN IF tool_name \notin ToolNames
          THEN \* the catalog lookup raises KeyError, outside the try-block
               /\ pc' = "raised"
               /\ exc' = "KeyError"
               /\ halted' = "exception"
               /\ UNCHANGED <<messages, event, node, dispatches>>
          ELSE IF NormalizeRaises(tool_name, tool_call.args)
          THEN \* int() raises ValueError, outside the try-block
               /\ pc' = "raised"
               /\ exc' = "ValueError"
               /\ halted' = "exception"
               /\ UNCHANGED <<messages, event, node, dispatches>>
          ELSE LET tool_args == NormalizedArgs(tool_name, tool_call.args, messages)
                   try == TryBlock(tool_name, tool_args)
                   content == ExceptHandler(tool_name, try.exc, tool_args)
                   tool_message == ToolMessage(content, tool_call.id)
               IN /\ messages' = Append(StoreCodename(tool_name, tool_call.args, messages),
                                        tool_message)
                  /\ event' = [node |-> "tool", msg |-> tool_message]
                  /\ node' = ToolEdge
                  /\ pc' = "event"
                  /\ dispatches' = Append(dispatches,
                        [pos |-> Len(messages), name |-> tool_name,
                         raw |-> tool_call.args, args |-> tool_args,
                         id |-> tool_call.id, raised |-> try.raised,
                         invoked |-> try.invoked])
                  /\ UNCHANGED <<exc, halted>>
    /\ UNCHANGED <<maxTurns, turn_count, final_response, result, nextId,
                   modelQueries, tool, runs, pipe_response>>

\* run_agent: one pass of the loop body on the event just yielded
loop_body ==
    /\ pc = "event"
    /\ turn_count' = turn_count + 1
    /\ IF BudgetExceeded(turn_count + 1, maxTurns)
       THEN \* break, then return
            /\ pc' = "done"
            /\ halted' = "budget"
            /\ result' = ReturnValue(final_response)
            /\ UNCHANGED final_response
       ELSE /\ pc' = "stream"
            /\ final_response' = ObserveEvent(event, final_response)
            /\ UNCHANGED <<halted, result>>
    /\ UNCHANGED <<maxTurns, messages, node, event, exc, nextId, modelQueries,
                   toolRuns, dispatches, tool, runs, pipe_response>>

\* run_agent: astream is exhausted (the graph reached END), then return
stream_end ==
    /\ pc = "stream"
    /\ node = "END"
    /\ pc' = "done"
    /\ halted' = "end"
    /\ result' = ReturnValue(final_response)
    /\ UNCHANGED <<maxTurns, messages, node, event, turn_count, final_response,
                   exc, nextId, modelQueries, toolRuns, dispatches, tool, runs, pipe_response>>

\* pipe: run_until_complete has returned run_agent's value or raised what
\* left run_agent; the value, or the error string of the handler, is returned
pipe_return ==
    /\ pc \in {"done", "raised"}
    /\ pipe_response = NoResponse
    /\ pipe_response' = IF pc = "done" THEN result ELSE PipeError(exc)
    /\ UNCHANGED <<maxTurns, messages, node, pc, event, turn_count, final_response,
                   result, halted, exc, nextId, modelQueries, toolRuns, dispatches,
                   tool, runs>>

Next == call_model \/ call_tool \/ loop_body \/ stream_end \/ pipe_return

Spec == Init /\ [][Next]_vars

\* the event loop keeps running the coroutine until it returns or raises
FairSpec == Spec /\ WF_vars(Next)

TypeOK ==
    /\ maxTurns \in 0..MaxTurnsBound
    /\ node \in {"agent", "tool", "END"}
    /\ pc \in {"stream", "event", "done", "raised"}
    /\ halted \in {"none", "end", "budget", "exception"}
    /\ turn_count \in 0..(MaxTurnsBound + 1)
    /\ Len(messages) <= MaxMsgs

\* --------------------------------------------- the normaliser on its own
\* values a model can put under search_term, __arg1 or id
NormValues ==
    {Absent, None, PyInt(0), PyInt(7),
     PyStr(<<>>), PyStr(<<"7">>), PyStr(<<"0", "7">>), PyStr(<<"a">>),
     PyStr(<<"7", "a">>), PyStr(<<"sup2">>)}

NormArgs ==
    {[EmptyDict EXCEPT !["search_term"] = a, !["__arg1"] = b, !["id"] = c] :
        a \in NormValues, b \in NormValues, c \in NormValues}

\* the state in which call_tool is entered for a first response that requests
\* one search tool
InitNorm ==
    /\ maxTurns \in 1..MaxTurnsBound
    /\ \E tool_name \in search_tools, tool_args \in NormArgs :
          LET response == AIMessage("", <<[name |-> tool_name, args |-> tool_args, id |-> 1]>>)
          IN /\ messages = <<HumanMessage("q"), response>>
             /\ event = [node |-> "agent", msg |-> response]
    /\ node = "tool"
    /\ pc = "stream"
    /\ turn_count = 1
    /\ final_response = EmptyText
    /\ result = EmptyText
    /\ halted = "none"
    /\ exc = "none"
    /\ nextId = 2
    /\ modelQueries = 1
    /\ toolRuns = 0
    /\ dispatches = <<>>
    /\ tool = ToolIdle
    /\ runs = NoRuns
    /\ pipe_response = NoResponse

SpecNorm == InitNorm /\ [][call_tool]_vars

\* the state in which call_tool is entered for a first response that requests
\* generate_ghostwriter_codename with any argument mapping
InitGen ==
    /\ maxTurns \in 1..MaxTurnsBound
    /\ \E tool_args \in NormArgs :
          LET response == AIMessage("", <<[name |-> "generate_ghostwriter_codename",
                                           args |-> tool_args, id |-> 1]>>)
          IN /\ messages = <<HumanMessage("q"), response>>
             /\ event = [node |-> "agent", msg |-> response]
    /\ node = "tool"
    /\ pc = "stream"
    /\ turn_count = 1
    /\ final_response = EmptyText
    /\ result = EmptyText
    /\ halted = "none"
    /\ exc = "none"
    /\ nextId = 2
    /\ modelQueries = 1
    /\ toolRuns = 0
    /\ dispatches = <<>>
    /\ tool = ToolIdle
    /\ runs = NoRuns
    /\ pipe_response = NoResponse

SpecGen == InitGen /\ [][call_tool]_vars

\* ------------------------------------- the codename special case on its own
\* call_tool is a function of the conversation it is handed: the histories
\* below hold earlier tool results of every shape a tool function can return.
RT2024 == PyStr(<<"RT2024">>)
ACME2024 == PyStr(<<"ACME2024">>)

HistoryContents ==
    { ResultContent("generate_ghostwriter_codename", RT2024),
      ResultContent("create_ghostwriter_client", ACME2024),
      ResultContent("create_ghostwriter_report", Absent),
      ListContent("search_ghostwriter_clients", ACME2024),
      GarbageContent("explain_workflow", ACME2024),
      ErrorContent("create_ghostwriter_client", "NameError: name 'MCP_AVAILABLE' is not defined",
                   Dict1("codename", ACME2024)) }

Histories == UNION {[1..n -> HistoryContents] : n \in 0..MaxHistory}

\* the arguments of the create_ghostwriter_project request
ProjectArgs ==
    { Dict1("clientId", PyInt(123)),
      [Dict1("clientId", PyInt(123)) EXCEPT !["codename"] = PyStr(<<"OWN">>)],
      EmptyDict }

\* the conversation <<human, (request, result) for each history entry, request>>
ConversationOf(history, tool_args) ==
    [n \in 1..(2 * Len(history) + 2) |->
        IF n = 1 THEN HumanMessage("q")
        ELSE IF n = 2 * Len(history) + 2
             THEN AIMessage("", <<[name |-> "create_ghostwriter_project",
                                   args |-> tool_args, id |-> Len(history) + 1]>>)
        ELSE IF n % 2 = 0
             THEN AIMessage("", <<[name |-> history[n \div 2].tool,
                                   args |-> EmptyDict, id |-> n \div 2]>>)
        ELSE ToolMessage(history[(n - 1) \div 2], (n - 1) \div 2)]

InitCodename ==
    /\ maxTurns = DefaultMaxTurns
    /\ \E history \in Histories, tool_args \in ProjectArgs :
          /\ messages = ConversationOf(history, tool_args)
          /\ event = [node |-> "agent", msg |-> messages[Len(messages)]]
          /\ turn_count = Len(messages) - 1
          /\ final_response =
                IF history = <<>> THEN EmptyText ELSE history[Len(history)]
          /\ nextId = Len(history) + 2
          /\ modelQueries = Len(history) + 1
          /\ toolRuns = Len(history)
    /\ node = "tool"
    /\ pc = "stream"
    /\ result = EmptyText
    /\ halted = "none"
    /\ exc = "none"
    /\ dispatches = <<>>
    /\ tool = ToolIdle
    /\ runs = NoRuns
    /\ pipe_response = NoResponse

SpecCodename == InitCodename /\ [][call_tool]_vars

\* ------------------------------------------- the tool functions of main.py
\* One invocation `await f(**kwargs)` of a tool function, with the requests it
\* sends through _post. The agent loop is not running.
PipelineIdle ==
    /\ maxTurns = DefaultMaxTurns
    /\ messages = <<>>
    /\ node = "none"
    /\ pc = "idle"
    /\ event = NoEvent
    /\ turn_count = 0
    /\ final_response = EmptyText
    /\ result = EmptyText
    /\ halted = "none"
    /\ exc = "none"
    /\ nextId = 1
    /\ modelQueries = 0
    /\ toolRuns = 0
    /\ dispatches = <<>>
    /\ pipe_response = NoResponse

ToolFunctions ==
    {"search_ghostwriter_findings", "search_ghostwriter_reports",
     "search_ghostwriter_clients", "search_ghostwriter_projects",
     "get_ghostwriter_client_by_id_tool", "get_ghostwriter_project_by_id_tool",
     "get_ghostwriter_report_by_id_tool", "generate_ghostwriter_codename",
     "create_ghostwriter_client", "create_ghostwriter_project",
     "create_ghostwriter_report", "attach_finding_to_report",
     "list_report_finding_titles_tool", "update_report_finding_tool",
     "explain_workflow"}

SearchFunctions ==
    {"search_ghostwriter_findings", "search_ghostwriter_reports",
     "search_ghostwriter_clients", "search_ghostwriter_projects"}

LookupFunctions ==
    {"get_ghostwriter_client_by_id_tool", "get_ghostwriter_project_by_id_tool",
     "get_ghostwriter_report_by_id_tool"}

\* the parameters without a default
Required(f) ==
    CASE f \in LookupFunctions -> {"id"}
      [] f = "create_ghostwriter_client" -> {"name", "short_name", "codename"}
      [] f = "create_ghostwriter_project" -> {"clientId", "codename", "projectTypeId"}
      [] f = "create_ghostwriter_report" -> {"title", "projectId"}
      [] f = "attach_finding_to_report" -> {"finding", "reportId"}
      [] f = "list_report_finding_titles_tool" -> {"reportId"}
      [] f = "update_report_finding_tool" -> {"findingId"}
      [] OTHER -> {}

\* the parameters with a default
Optional(f) ==
    CASE f \in SearchFunctions -> {"search_term"}
      [] f = "generate_ghostwriter_codename" -> {"dummy"}
      [] f = "create_ghostwriter_client" -> {"address", "note"}
      [] f = "create_ghostwriter_project" -> {"startDate", "endDate"}
      [] f = "create_ghostwriter_report" -> {"last_update"}
      [] f = "update_report_finding_tool" -> {"replicationSteps", "affectedEntities"}
      [] OTHER -> {}

\* the parameters a tool function can be called with
Accepts(f) == Required(f) \cup Optional(f)

\* self.tools: the function bound to a catalog name
ToolFunc(tool_name) ==
    CASE tool_name = "get_ghostwriter_report_by_id" -> "get_ghostwriter_report_by_id_tool"
      [] tool_name = "get_ghostwriter_project_by_id" -> "get_ghostwriter_project_by_id_tool"
      [] tool_name = "get_ghostwriter_client_by_id" -> "get_ghostwriter_client_by_id_tool"
      [] tool_name = "list_report_finding" -> "list_report_finding_titles_tool"
      [] tool_name = "update_report_finding" -> "update_report_finding_tool"
      [] OTHER -> tool_name

\* the keys of a keyword mapping: every parameter name and one that no tool has
KwKeys == UNION {Required(f) \cup Optional(f) : f \in ToolFunctions} \cup {"unexpected"}

NoKwargs == [k \in KwKeys |-> Absent]

\* the default of a parameter
Default(k) == IF k = "dummy" THEN PyStr(<<>>) ELSE None

\* the value a parameter is bound to
Bound(kwargs, k) == IF kwargs[k] = Absent THEN Default(k) ELSE kwargs[k]

\* binding **kwargs to the signature raises TypeError on a missing required
\* parameter and on a keyword the function does not have
BindRaises(f, kwargs) ==
    \/ \E k \in Required(f) : kwargs[k] = Absent
    \/ \E k \in KwKeys \ (Required(f) \cup Optional(f)) : kwargs[k] # Absent

\* int(v) raises: None (TypeError), "" and non-digit strings (ValueError)
IntFails(v) == v.t = "none" \/ (v.t = "str" /\ (v.s = <<>> \/ IntRaises(v)))

\* what a tool function returns: a result, or the mapping {"error": msg}
NoReturn == [kind |-> "none", msg |-> ""]
Value == [kind |-> "value", msg |-> ""]
Error(m) == [kind |-> "error", msg |-> m]

\* the variables of an update_report_finding request (the variables of the
\* other operations are not recorded)
RequestVars == {"findingId", "replication_steps", "affectedEntities"}
NoVariables == [k \in RequestVars |-> Absent]
Request(operation, variables) == [op |-> operation, variables |-> variables]

\* what the backend answers to one request: rows, no rows, a GraphQL error
\* document without "data", or an HTTP error status
Outcomes == {"ok", "empty", "errors", "http_error"}

\* a tool body that sends one request and reads the rows out of the answer
OnePost(request, outcome, empty_ok) ==
    [posts |-> <<request>>,
     ret |-> CASE outcome = "ok" -> Value
               [] outcome = "empty" ->
                    IF empty_ok THEN Value ELSE Error("no data returned")
               [] outcome = "errors" -> Error("KeyError: 'data'")
               [] OTHER -> Error("HTTPStatusError")]

\* a tool body that fails before any request
NoPost(m) == [posts |-> <<>>, ret |-> Error(m)]

\* update_report_finding: set_fields built by truthiness
SetFields_truthy(replicationSteps, affectedEntities) ==
    [NoVariables EXCEPT
        !["replication_steps"] = IF Truthy(replicationSteps) THEN replicationSteps ELSE Absent,
        !["affectedEntities"] = IF Truthy(affectedEntities) THEN affectedEntities ELSE Absent]

\* update_report_finding: set_fields holds the arguments that are not None
SetFields(replicationSteps, affectedEntities) ==
    [NoVariables EXCEPT
        !["replication_steps"] = IF replicationSteps # None THEN replicationSteps ELSE Absent,
        !["affectedEntities"] = IF affectedEntities # None THEN affectedEntities ELSE Absent]

\* update_report_finding_tool with update_report_finding
UpdateBody(findingId, replicationSteps, affectedEntities, outcome) ==
    IF IntFails(findingId) THEN NoPost("int() failed")
    ELSE LET set_fields == SetFields(replicationSteps, affectedEntities)
         IN IF set_fields = NoVariables
            THEN NoPost("At least one of replicationSteps or affectedEntities must be provided.")
            ELSE OnePost(Request("update_report_finding",
                                 [set_fields EXCEPT !["findingId"] = PyInt(int(findingId))]),
                         outcome, TRUE)

\* attach_finding_to_report: a title is looked up first
AttachBody(finding, backend) ==
    LET attach == Request("add_finding_to_report", NoVariables)
    IN IF finding.t = "str"
       THEN LET search == OnePost(Request("search_findings", NoVariables), backend[1], FALSE)
            IN IF backend[1] = "ok"
               THEN LET second == OnePost(attach, backend[2], FALSE)
                    IN [posts |-> search.posts \o second.posts, ret |-> second.ret]
               ELSE IF backend[1] = "empty"
               THEN [posts |-> search.posts, ret |-> Error("No finding found with title like")]
               ELSE search
       ELSE IF IntFails(finding) THEN NoPost("int() failed")
       ELSE OnePost(attach, backend[1], FALSE)

\* the body of tool function f on bound parameters: its try-block with the
\* handler `except Exception as e: return {"error": str(e)}`
ToolBody(f, kwargs, backend) ==
    LET arg(k) == Bound(kwargs, k)
    IN CASE f = "search_ghostwriter_findings" ->
              OnePost(Request("search_findings", NoVariables), backend[1], TRUE)
         [] f = "search_ghostwriter_reports" ->
              OnePost(Request("search_reports", NoVariables), backend[1], TRUE)
         [] f = "search_ghostwriter_clients" ->
              OnePost(Request("search_clients", NoVariables), backend[1], TRUE)
         [] f = "search_ghostwriter_projects" ->
              OnePost(Request("search_projects", NoVariables), backend[1], TRUE)
         [] f = "get_ghostwriter_client_by_id_tool" ->
              OnePost(Request("get_client_by_id", NoVariables), backend[1], TRUE)
         [] f = "get_ghostwriter_project_by_id_tool" ->
              OnePost(Request("get_project_by_id", NoVariables), backend[1], TRUE)
         [] f = "get_ghostwriter_report_by_id_tool" ->
              OnePost(Request("get_report_by_id", NoVariables), backend[1], TRUE)
         [] f = "generate_ghostwriter_codename" ->
              OnePost(Request("generate_codename", NoVariables), backend[1], FALSE)
         [] f = "create_ghostwriter_client" ->
              OnePost(Request("create_client", NoVariables), backend[1], FALSE)
         [] f = "create_ghostwriter_project" ->
              IF IntFails(arg("clientId")) \/ IntFails(arg("projectTypeId"))
              THEN NoPost("int() failed")
              ELSE OnePost(Request("create_project", NoVariables), backend[1], FALSE)
         [] f = "create_ghostwriter_report" ->
              IF IntFails(arg("projectId"))
              THEN NoPost("int() failed")
              ELSE OnePost(Request("create_report", NoVariables), backend[1], FALSE)
         [] f = "attach_finding_to_report" -> AttachBody(arg("finding"), backend)
         [] f = "list_report_finding_titles_tool" ->
              OnePost(Request("list_report_findings", NoVariables), backend[1], TRUE)
         [] f = "update_report_finding_tool" ->
              UpdateBody(arg("findingId"), arg("replicationSteps"),
                         arg("affectedEntities"), backend[1])
         [] OTHER -> \* explain_workflow returns its fixed dict
              [posts |-> <<>>, ret |-> Value]

\* the values drawn for a key of the keyword mapping
KwValues(k) ==
    CASE k = "findingId" -> {Absent, PyInt(7), PyStr(<<"7">>), PyStr(<<"a">>)}
      [] k \in {"replicationSteps", "affectedEntities"} ->
            {Absent, None, PyStr(<<>>), PyStr(<<"x">>)}
      [] k = "finding" -> {Absent, None, PyInt(5), PyStr(<<"x">>)}
      [] k \in {"clientId", "projectTypeId", "projectId"} ->
            {Absent, PyInt(123), PyStr(<<"a">>)}
      [] OTHER -> {Absent, PyStr(<<"x">>)}

\* the keyword mappings over a set of keys
RECURSIVE KwArgsOver(_)
KwArgsOver(keys) ==
    IF keys = {} THEN {NoKwargs}
    ELSE LET k == CHOOSE x \in keys : TRUE
         IN {[kwargs EXCEPT ![k] = v] : kwargs \in KwArgsOver(keys \ {k}), v \in KwValues(k)}

\* the mappings a tool function is invoked with: its own parameters, each
\* supplied or not, and possibly a keyword it does not have
KwArgsOf(f) == KwArgsOver(Required(f) \cup Optional(f) \cup {"unexpected"})

InitTool ==
    /\ PipelineIdle
    /\ runs = NoRuns
    /\ \E f \in ToolFunctions :
          \E kwargs \in KwArgsOf(f) :
             tool = [pc |-> "call", name |-> f, kwargs |-> kwargs, posts |-> <<>>,
                     outcomes |-> <<>>, ret |-> NoReturn, exc |-> "none"]

\* `await f(**kwargs)`: binding, then the whole body
invoke_tool ==
    /\ tool.pc = "call"
    /\ IF BindRaises(tool.name, tool.kwargs)
       THEN tool' = [tool EXCEPT !.pc = "raised", !.exc = "TypeError"]
       ELSE \E backend \in [1..2 -> Outcomes] :
               LET body == ToolBody(tool.name, tool.kwargs, backend)
               IN tool' = [tool EXCEPT !.pc = "returned",
                                       !.posts = body.posts,
                                       !.outcomes = SubSeq(backend, 1, Len(body.posts)),
                                       !.ret = body.ret]
    /\ UNCHANGED <<maxTurns, messages, node, pc, event, turn_count, final_response,
                   result, halted, exc, nextId, modelQueries, toolRuns, dispatches,
                   runs, pipe_response>>

SpecTool == InitTool /\ [][invoke_tool]_vars

\* --------------------------------------------- search_ghostwriter_clients
\* One call of the tool function with the backend's answer: search_clients of
\* ghostwriter_api.py fills the optional fields, the tool function builds the
\* returned records.
\* a client row of the backend; an optional field is missing, null or a string
ClientRows ==
    {[id |-> PyInt(0), name |-> PyStr(<<"Acme Corp">>), codename |-> PyStr(<<"ACME">>),
      shortName |-> sn, address |-> ad, note |-> nt, timezone |-> None] :
        sn \in {Absent, None, PyStr(<<"x">>)},
        ad \in {Absent, None, PyStr(<<"x">>)},
        nt \in {Absent, None, PyStr(<<"x">>)}}

\* the rows of one answer, in backend order, with ids 11, 12, ...
Numbered(rows) == [n \in 1..Len(rows) |-> [rows[n] EXCEPT !.id = PyInt(10 + n)]]

\* what the backend answers: {"data": {"client": rows}}, a document without
\* "data", or an HTTP error status
Replies ==
    {[kind |-> "data", rows |-> Numbered(rows)] :
        rows \in UNION {[1..n -> ClientRows] : n \in 0..MaxRows}}
    \cup {[kind |-> k, rows |-> <<>>] : k \in {"errors", "http_error"}}

\* str(v) inside an f-string
Str(v) == IF v.t = "str" THEN v.s ELSE <<"None">>

\* search_clients: variables = {"term": f"%{search_term}%"}
Term(search_term) == PyStr(<<"%">> \o Str(search_term) \o <<"%">>)

\* d.get(k): None for a missing key
GetOrNone(v) == IF v = Absent THEN None ELSE v

\* d.get(k, default)
GetOr(v, default) == IF v = Absent THEN default ELSE v

\* search_clients without the fallback for an optional field
OrEmpty_keep(v) == GetOrNone(v)

\* search_clients: client.get(k) or ""
OrEmpty(v) == PyOr(GetOrNone(v), PyStr(<<>>))

\* search_clients: the processed rows of an answer that holds clients
Processed(rows) ==
    [n \in 1..Len(rows) |->
        [rows[n] EXCEPT !.address = OrEmpty(@), !.note = OrEmpty(@),
                        !.timezone = OrEmpty(@), !.shortName = OrEmpty(@)]]

\* search_ghostwriter_clients: the record returned for a client
ClientRecord(c) ==
    [id |-> c.id, name |-> c.name, codename |-> c.codename,
     shortName |-> GetOr(c.shortName, PyStr(<<>>)),
     address |-> GetOr(c.address, PyStr(<<>>)),
     note |-> GetOr(c.note, PyStr(<<>>)),
     workflow_note_id |-> c.id]

\* search_ghostwriter_clients: the value returned on an answer
ClientsReturn(reply) ==
    CASE reply.kind = "http_error" -> [kind |-> "error", msg |-> "HTTPStatusError", records |-> <<>>]
      [] reply.kind = "errors" -> [kind |-> "error", msg |-> "KeyError: 'data'", records |-> <<>>]
      [] OTHER ->
           LET clients == IF reply.rows # <<>> THEN Processed(reply.rows) ELSE reply.rows
           IN [kind |-> "list", msg |-> "",
               records |-> [n \in 1..Len(clients) |-> ClientRecord(clients[n])]]

InitClients ==
    /\ PipelineIdle
    /\ runs = NoRuns
    /\ \E search_term \in {Absent, PyStr(<<"Acme">>)}, reply \in Replies :
          tool = [pc |-> "call", name |-> "search_ghostwriter_clients",
                  search_term |-> search_term, reply |-> reply, posts |-> <<>>,
                  ret |-> [kind |-> "none", msg |-> "", records |-> <<>>]]

\* `await search_ghostwriter_clients(search_term=...)`
search_ghostwriter_clients ==
    /\ tool.pc = "call"
    /\ tool' = [tool EXCEPT
          !.pc = "returned",
          !.posts = <<[op |-> "search_clients",
                       term |-> Term(Bound([NoKwargs EXCEPT !["search_term"] = tool.search_term],
                                           "search_term"))]>>,
          !.ret = ClientsReturn(tool.reply)]
    /\ UNCHANGED <<maxTurns, messages, node, pc, event, turn_count, final_response,
                   result, halted, exc, nextId, modelQueries, toolRuns, dispatches,
                   runs, pipe_response>>

SpecClients == InitClients /\ [][search_ghostwriter_clients]_vars

\* --------------------------------------- interleaved runs of one Pipeline
\* Several run_agent coroutines on the same Pipeline object. Each astream call
\* gets the state built from its own `inputs`; the Pipeline's attributes
\* (tools, valves) are what the runs share.
Runs == {1, 2}

\* the conversation a run is started on: the human message alone, or a
\* conversation that already holds a codename result
StartOf(r, with_history) ==
    IF with_history
    THEN <<HumanMessage("q"),
           AIMessage("", <<[name |-> "generate_ghostwriter_codename",
                            args |-> EmptyDict, id |-> 100 + r]>>),
           ToolMessage(ResultContent("generate_ghostwriter_codename",
                                     IF r = 1 THEN RT2024 ELSE ACME2024), 100 + r)>>
    ELSE <<HumanMessage("q")>>

\* what the model answers in these runs
RunBatches ==
    { <<>>,
      <<[name |-> "create_ghostwriter_project", args |-> Dict1("clientId", PyInt(123))]>>,
      <<[name |-> "no_such_tool", args |-> EmptyDict]>> }

\* a node's returned message is added to every run's conversation
AppendTo_shared(rs, r, msg) ==
    [q \in DOMAIN rs |-> [rs[q] EXCEPT !.messages = Append(@, msg)]]

\* operator.add on the state of run r: the node's returned message is added to
\* that run's conversation
AppendTo(rs, r, msg) == [rs EXCEPT ![r].messages = Append(@, msg)]

InitTwo ==
    /\ PipelineIdle
    /\ tool = ToolIdle
    /\ \E h \in [Runs -> BOOLEAN] :
          runs = [shared |-> [tools |-> ToolNames, MAX_TURNS |-> MaxTurnsBound],
                  nextId |-> 1,
                  run |-> [r \in Runs |->
                             [messages |-> StartOf(r, h[r]),
                              start |-> StartOf(r, h[r]),
                              own |-> <<>>,
                              node |-> "agent",
                              pc |-> "stream",
                              event |-> NoEvent,
                              turn_count |-> Len(StartOf(r, h[r])) - 1,
                              final_response |-> EmptyText,
                              result |-> EmptyText,
                              dispatches |-> <<>>]]]

\* the frame of a step of a run: everything but `runs`
OnlyRuns ==
    UNCHANGED <<maxTurns, messages, node, pc, event, turn_count, final_response,
                result, halted, exc, nextId, modelQueries, toolRuns, dispatches,
                tool, pipe_response>>

\* node "agent" of run r
run_call_model(r) ==
    LET rec == runs.run[r]
    IN /\ rec.pc = "stream"
       /\ rec.node = "agent"
       /\ Len(rec.messages) < MaxMsgs
       /\ \E batch \in RunBatches :
             LET response == AIMessage("a1", WithIds(batch, runs.nextId))
                 rs == AppendTo(runs.run, r, response)
             IN runs' = [runs EXCEPT
                   !.nextId = @ + Len(batch),
                   !.run = [rs EXCEPT ![r].own = Append(@, response),
                                      ![r].event = [node |-> "agent", msg |-> response],
                                      ![r].node = AgentEdge(response),
                                      ![r].pc = "event"]]
       /\ OnlyRuns

\* node "tool" of run r
run_call_tool(r) ==
    LET rec == runs.run[r]
        last_message == rec.messages[Len(rec.messages)]
        tool_call == SelectToolCall(last_message)
        tool_name == tool_call.name
    IN /\ rec.pc = "stream"
       /\ rec.node = "tool"
       /\ IF tool_name \notin runs.shared.tools \/ NormalizeRaises(tool_name, tool_call.args)
          THEN runs' = [runs EXCEPT !.run[r].pc = "raised"]
          ELSE LET tool_args == NormalizedArgs(tool_name, tool_call.args, rec.messages)
                   try == TryBlock(tool_name, tool_args)
                   content == ExceptHandler(tool_name, try.exc, tool_args)
                   tool_message == ToolMessage(content, tool_call.id)
                   stored == [runs.run EXCEPT ![r].messages =
                                 StoreCodename(tool_name, tool_call.args, rec.messages)]
                   rs == AppendTo(stored, r, tool_message)
               IN runs' = [runs EXCEPT
                     !.run = [rs EXCEPT
                        ![r].own = Append(@, tool_message),
                        ![r].event = [node |-> "tool", msg |-> tool_message],
                        ![r].node = ToolEdge,
                        ![r].pc = "event",
                        ![r].dispatches = Append(@,
                            [pos |-> Len(rec.messages), name |-> tool_name,
                             raw |-> tool_call.args, args |-> tool_args,
                             id |-> tool_call.id, raised |-> try.raised,
                             invoked |-> try.invoked])]]
       /\ OnlyRuns

\* run_agent of run r: one pass of the loop body
run_loop_body(r) ==
    LET rec == runs.run[r]
    IN /\ rec.pc = "event"
       /\ runs' = [runs EXCEPT !.run[r] =
             IF BudgetExceeded(rec.turn_count + 1, runs.shared.MAX_TURNS)
             THEN [rec EXCEPT !.turn_count = @ + 1, !.pc = "done",
                              !.result = ReturnValue(rec.final_response)]
             ELSE [rec EXCEPT !.turn_count = @ + 1, !.pc = "stream",
                              !.final_response = ObserveEvent(rec.event, rec.final_response)]]
       /\ OnlyRuns

\* run_agent of run r: astream is exhausted, then return
run_stream_end(r) ==
    LET rec == runs.run[r]
    IN /\ rec.pc = "stream"
       /\ rec.node = "END"
       /\ runs' = [runs EXCEPT !.run[r].pc = "done",
                               !.run[r].result = ReturnValue(rec.final_response)]
       /\ OnlyRuns

NextTwo ==
    \E r \in Runs :
        run_call_model(r) \/ run_call_tool(r) \/ run_loop_body(r) \/ run_stream_end(r)

SpecTwo == InitTwo /\ [][NextTwo]_vars

\* ------------------------------------------------------------ the claims
Terminated == pc \in {"done", "raised"}

\* the responses that request a tool
RequestingResponses(msgs) ==
    {n \in 1..Len(msgs) : msgs[n].type = "ai" /\ msgs[n].tool_calls # <<>>}

\* call_tool has been executed for the response at position n
ToolRanFor(n) ==
    /\ n \in RequestingResponses(messages)
    /\ toolRuns >= Cardinality({m \in RequestingResponses(messages) : m <= n})

\* the tool results that carry correlation token id
ResultsFor(id) ==
    {m \in 1..Len(messages) : messages[m].type = "tool" /\ messages[m].tool_call_id = id}

\* C1: a response with zero tool calls ends the run in that iteration, with no
\* tool dispatched, and run_agent returns exactly that response's text (an
\* empty text is not held against the claim: the fixed apology stands for it).
C1_NoToolCallsReturnsText ==
    LET last == messages[Len(messages)]
    IN /\ (last.type = "ai" /\ last.tool_calls = <<>>) => node = "END"
       /\ (pc = "done" /\ halted = "end") =>
             /\ last.type = "ai"
             /\ last.tool_calls = <<>>
             /\ last.content.text # "" => result = last.content

\* C2: a run never executes more than MAX_TURNS model queries.
C2_AtMostNModelQueries == modelQueries <= maxTurns

\* the events that passed the budget check of a run halted by the budget sit
\* at positions 2..turn_count of the conversation
ObservedAssistantTexts ==
    {n \in 2..turn_count : messages[n].type = "ai" /\ messages[n].content.text # ""}

\* C3: a run halted by the budget returns the last assistant free text it
\* observed, the fallback only if there was none, never a tool result.
C3_BudgetReturnsAssistantText ==
    (pc = "done" /\ halted = "budget") =>
        /\ result.kind = "text"
        /\ IF ObservedAssistantTexts = {}
           THEN result = Fallback
           ELSE result =
                  messages[CHOOSE n \in ObservedAssistantTexts :
                              \A m \in ObservedAssistantTexts : m <= n].content

\* C4: once turn_count has reached MAX_TURNS, call_tool does not run again.
C4_NoDispatchAfterBudget ==
    [][turn_count >= maxTurns => toolRuns' = toolRuns]_vars

\* C5: every run eventually terminates, whatever the model answers.
C5_Terminates == <>Terminated

\* a run in which every response requested a tool, every dispatch failed, and
\* which the budget stopped
C5_Witness ==
    /\ pc = "done"
    /\ halted = "budget"
    /\ toolRuns >= 1
    /\ \A n \in 1..Len(messages) :
          messages[n].type = "ai" => messages[n].tool_calls # <<>>
    /\ \A k \in 1..Len(dispatches) : dispatches[k].raised

\* C6: a request for a tool that is not in the catalog is answered inside the
\* iteration by a tool result with an error payload and the call's token, the
\* graph returns to the model, and no exception leaves run_agent.
C6_UnknownToolContained ==
    \A n \in 1..Len(messages) :
        (ToolRanFor(n) /\ messages[n].tool_calls[1].name \notin ToolNames) =>
            /\ pc # "raised"
            /\ Len(messages) > n
            /\ messages[n + 1].type = "tool"
            /\ messages[n + 1].content.kind = "error"
            /\ messages[n + 1].tool_call_id = messages[n].tool_calls[1].id

\* C7: an exception raised in the dispatch try-block of call_tool does not
\* leave call_tool: exactly one tool result is appended, it carries the error
\* text and the arguments used for the call, and the graph goes back to the
\* model; after it the run can only be ended by the turn budget.
C7_ToolFailureContained ==
    \A k \in 1..Len(dispatches) :
        LET d == dispatches[k]
        IN d.raised =>
            /\ Len(messages) > d.pos
            /\ messages[d.pos + 1].type = "tool"
            /\ messages[d.pos + 1].content.kind = "error"
            /\ messages[d.pos + 1].content.tool = d.name
            /\ messages[d.pos + 1].content.exc # ""
            /\ messages[d.pos + 1].content.args = d.args
            /\ messages[d.pos + 1].tool_call_id = d.id
            /\ Cardinality(ResultsFor(d.id)) = 1
            /\ Len(messages) = d.pos + 1 =>
                  /\ pc # "raised"
                  /\ node = "agent"
                  /\ pc = "done" => halted = "budget"

\* a failed dispatch with non-empty arguments after which the model was
\* queried again
C7_Witness ==
    \E k \in 1..Len(dispatches) :
        /\ dispatches[k].raised
        /\ dispatches[k].args # EmptyDict
        /\ Len(messages) > dispatches[k].pos + 1
        /\ messages[dispatches[k].pos + 2].type = "ai"

\* C8: when the run has terminated, every ToolCall of every response has
\* exactly one tool result carrying its token.
C8_EveryCallAnsweredOnce ==
    Terminated =>
        \A n \in RequestingResponses(messages) :
            \A c \in 1..Len(messages[n].tool_calls) :
                Cardinality(ResultsFor(messages[n].tool_calls[c].id)) = 1

\* C9: per response at most one call is dispatched, it is the first call of
\* the batch (name, arguments and token of index 0), exactly one dispatch has
\* happened once call_tool has answered the response, and the other calls of
\* the batch are never dispatched nor answered.
C9_OnlyFirstCallDispatched ==
    /\ \A k \in 1..Len(dispatches) :
          LET d == dispatches[k]
              m == messages[d.pos]
          IN /\ d.pos \in RequestingResponses(messages)
             /\ d.name = m.tool_calls[1].name
             /\ d.raw = m.tool_calls[1].args
             /\ d.id = m.tool_calls[1].id
             /\ messages[d.pos + 1].tool_call_id = m.tool_calls[1].id
             /\ \A j \in 1..Len(dispatches) : j # k => dispatches[j].pos # d.pos
    /\ \A n \in RequestingResponses(messages) :
          /\ Len(messages) > n =>
                Cardinality({k \in 1..Len(dispatches) : dispatches[k].pos = n}) = 1
          /\ \A c \in 2..Len(messages[n].tool_calls) :
                /\ ResultsFor(messages[n].tool_calls[c].id) = {}
                /\ \A k \in 1..Len(dispatches) :
                      dispatches[k].id # messages[n].tool_calls[c].id

\* a response with two different calls whose dispatch was followed by the
\* next model query
C9_Witness ==
    \E n \in RequestingResponses(messages) :
        /\ Len(messages[n].tool_calls) >= 2
        /\ messages[n].tool_calls[1].name # messages[n].tool_calls[2].name
        /\ Len(messages) > n + 1
        /\ messages[n + 2].type = "ai"
        /\ \E k \in 1..Len(dispatches) : dispatches[k].pos = n

\* the keys among search_term, __arg1 and id under which a value is supplied
SuppliedKeys(raw) ==
    {k \in {"search_term", "__arg1", "id"} : raw[k] # Absent /\ raw[k] # None}

\* a string composed only of decimal digits
OnlyDigits(v) ==
    /\ v.t = "str"
    /\ Len(v.s) > 0
    /\ \A n \in 1..Len(v.s) : v.s[n] \in AsciiDigitSet

\* a value without characters outside ASCII
PlainValue(v) == \A n \in 1..Len(v.s) : v.s[n] \notin OtherDigitSet

\* C10: for a search tool called with one supplied value (an integer or an
\* ASCII string), an integer or a string of digits is normalised to exactly
\* {id: int(value)} and any other string to exactly {search_term: value}.
C10_SearchRouting ==
    LET call == messages[2].tool_calls[1]
    IN (/\ toolRuns = 1
        /\ call.name \in search_tools
        /\ Cardinality(SuppliedKeys(call.args)) = 1
        /\ PlainValue(call.args[CHOOSE k \in SuppliedKeys(call.args) : TRUE])) =>
          LET v == call.args[CHOOSE k \in SuppliedKeys(call.args) : TRUE]
          IN /\ Len(dispatches) = 1
             /\ dispatches[1].args =
                   IF v.t = "int" \/ OnlyDigits(v)
                   THEN Dict1("id", PyInt(int(v)))
                   ELSE Dict1("search_term", v)

\* the create_ghostwriter_project request that call_tool was entered for
ProjectRequest ==
    CHOOSE n \in 1..Len(messages) :
        /\ messages[n].type = "ai"
        /\ messages[n].tool_calls # <<>>
        /\ messages[n].tool_calls[1].name = "create_ghostwriter_project"
        /\ \A m \in (n + 1)..Len(messages) : messages[m].type = "tool"

\* the earlier tool results whose text is a dict with a top-level codename
CodenameResults ==
    {n \in 1..(ProjectRequest - 1) :
        /\ messages[n].type = "tool"
        /\ messages[n].content.kind = "result"
        /\ messages[n].content.codename # Absent}

NewestCodenameResult == CHOOSE n \in CodenameResults : \A m \in CodenameResults : m <= n

\* call_tool has answered a create_ghostwriter_project request that came
\* without a codename
ProjectDispatchedWithoutCodename ==
    /\ Len(dispatches) = 1
    /\ dispatches[1].name = "create_ghostwriter_project"
    /\ dispatches[1].raw["codename"] = Absent

\* C11: a search tool called with no usable value fails validation: no
\* {search_term: None} reaches the dispatch and the tool result is a
\* validation error.
C11_NoUsableValueFailsValidation ==
    LET call == messages[2].tool_calls[1]
    IN (/\ toolRuns = 1
        /\ call.name \in search_tools
        /\ SuppliedKeys(call.args) = {}) =>
          /\ \A k \in 1..Len(dispatches) : dispatches[k].args["search_term"] # None
          /\ Len(messages) = 3
          /\ messages[3].type = "tool"
          /\ messages[3].content.kind = "error"
          /\ messages[3].content.exc = "ValidationError"

\* C12: for a create_ghostwriter_project request without codename the
\* dispatched codename is the one of the newest earlier tool result whose text
\* is a dict with a top-level codename; the other arguments are unchanged.
C12_NewestCodenameRecovered ==
    (ProjectDispatchedWithoutCodename /\ CodenameResults # {}) =>
        /\ dispatches[1].args["codename"] = messages[NewestCodenameResult].content.codename
        /\ \A k \in Keys \ {"codename"} : dispatches[1].args[k] = dispatches[1].raw[k]

\* two codename results with different codenames, and between the newer one
\* and the request a result that only mentions a codename
C12_Witness ==
    /\ ProjectDispatchedWithoutCodename
    /\ \E n \in CodenameResults, m \in CodenameResults :
          messages[n].content.codename # messages[m].content.codename
    /\ dispatches[1].args["codename"] = ACME2024
    /\ \E n \in (NewestCodenameResult + 1)..(ProjectRequest - 1) :
          /\ messages[n].type = "tool"
          /\ messages[n].content.kind \in {"list", "garbage", "error"}
          /\ MentionsCodename(messages[n].content)

\* C13: without an earlier codename result the dispatched arguments are the
\* request's own (no codename), the tool function is not reached and the tool
\* result is an error payload.
C13_NoCodenameNoFabrication ==
    (ProjectDispatchedWithoutCodename /\ CodenameResults = {}) =>
        /\ dispatches[1].args = dispatches[1].raw
        /\ dispatches[1].args["codename"] = Absent
        /\ ~dispatches[1].invoked
        /\ messages[Len(messages)].type = "tool"
        /\ messages[Len(messages)].content.kind = "error"
        /\ messages[Len(messages)].content.args["codename"] = Absent

\* a request without codename after results that only mention a codename
C13_Witness ==
    /\ ProjectDispatchedWithoutCodename
    /\ CodenameResults = {}
    /\ \E n \in 1..(ProjectRequest - 1) :
          messages[n].type = "tool" /\ MentionsCodename(messages[n].content)

\* C14: a create-project request with clientId 123 and no codename that
\* follows the codename result RT2024 reaches the tool function (and so the
\* backend) with codename RT2024 and clientId 123.
C14_ProjectReachesBackend ==
    (/\ ProjectDispatchedWithoutCodename
     /\ dispatches[1].raw["clientId"] = PyInt(123)
     /\ CodenameResults # {}
     /\ messages[NewestCodenameResult].content.codename = RT2024) =>
        /\ dispatches[1].invoked
        /\ dispatches[1].args["codename"] = RT2024
        /\ dispatches[1].args["clientId"] = PyInt(123)

C15_GeneratorDispatchedEmpty ==
    LET call == messages[2].tool_calls[1]
    IN (toolRuns = 1 /\ call.name = "generate_ghostwriter_codename") =>
          /\ pc # "raised"
          /\ Len(dispatches) = 1
          /\ dispatches[1].args = EmptyDict
          /\ messages[3].content =
                ExceptHandler("generate_ghostwriter_codename",
                              TryBlock("generate_ghostwriter_codename", EmptyDict).exc,
                              EmptyDict)

\* a generator call that came with several arguments, one of them a digit string
C15_Witness ==
    /\ toolRuns = 1
    /\ Len(dispatches) = 1
    /\ dispatches[1].name = "generate_ghostwriter_codename"
    /\ dispatches[1].raw["__arg1"] = PyStr(<<"a">>)
    /\ dispatches[1].raw["id"] = PyStr(<<"sup2">>)
    /\ dispatches[1].args = EmptyDict

\* C19: model queries and tool dispatches strictly alternate: the conversation
\* is human, response, result, response, result, ...; each result answers the
\* response right before it, which requested a tool; a dispatch is only due
\* when the last message is a response with a ToolCall, a model query only
\* when it is the human message or a tool result; and the two counts never
\* differ by more than the one response awaiting its dispatch.
C19_StrictAlternation ==
    LET n == Len(messages)
        last == messages[n]
    IN /\ messages[1].type = "human"
       /\ \A k \in 2..n :
             IF k % 2 = 0
             THEN /\ messages[k].type = "ai"
                  /\ k < n => messages[k].tool_calls # <<>>
             ELSE /\ messages[k].type = "tool"
                  /\ messages[k - 1].tool_calls # <<>>
                  /\ messages[k].tool_call_id = messages[k - 1].tool_calls[1].id
       /\ modelQueries = n \div 2
       /\ Len(dispatches) = (n - 1) \div 2
       /\ \A k \in 1..Len(dispatches) : dispatches[k].pos = 2 * k
       /\ toolRuns <= modelQueries
       /\ modelQueries <= toolRuns + 1
       /\ (node = "tool" /\ pc # "raised") =>
             /\ last.type = "ai"
             /\ last.tool_calls # <<>>
             /\ modelQueries = toolRuns + 1
       /\ node = "agent" =>
             /\ last.type \in {"human", "tool"}
             /\ modelQueries = toolRuns

\* two model queries with a dispatch between them and a second dispatch after
C19_Witness ==
    /\ modelQueries = 2
    /\ toolRuns = 2
    /\ Len(dispatches) = 2
    /\ Len(messages) = 5
    /\ Len(messages[2].tool_calls) = MaxCalls

\* the update-finding tool has been invoked with a findingId that int() accepts
UpdateInvoked ==
    /\ tool.pc # "idle"
    /\ tool.name = "update_report_finding_tool"
    /\ tool.pc # "call"
    /\ ~BindRaises(tool.name, tool.kwargs)
    /\ ~IntFails(tool.kwargs["findingId"])

\* a parameter of the invocation is unset: not supplied, or None
Unset(k) == tool.kwargs[k] \in {Absent, None}

\* C16: update_report_finding_tool with replicationSteps and affectedEntities
\* both unset returns the validation error and sends no request; with at least
\* one of them set (the empty string included) it sends exactly one request,
\* whose _set holds exactly the fields that were set, with their values.
C16_UpdateFindingRequests ==
    UpdateInvoked =>
        /\ tool.pc = "returned"
        /\ IF Unset("replicationSteps") /\ Unset("affectedEntities")
           THEN /\ tool.posts = <<>>
                /\ tool.ret = Error("At least one of replicationSteps or affectedEntities must be provided.")
           ELSE /\ Len(tool.posts) = 1
                /\ tool.posts[1].op = "update_report_finding"
                /\ tool.posts[1].variables["findingId"] = PyInt(int(tool.kwargs["findingId"]))
                /\ tool.posts[1].variables["replication_steps"] =
                      (IF Unset("replicationSteps") THEN Absent
                       ELSE tool.kwargs["replicationSteps"])
                /\ tool.posts[1].variables["affectedEntities"] =
                      (IF Unset("affectedEntities") THEN Absent
                       ELSE tool.kwargs["affectedEntities"])

\* an update that sets replicationSteps to the empty string and nothing else
C16_Witness ==
    /\ UpdateInvoked
    /\ tool.kwargs["replicationSteps"] = PyStr(<<>>)
    /\ tool.kwargs["affectedEntities"] = None
    /\ Len(tool.posts) = 1
    /\ tool.posts[1].variables["affectedEntities"] = Absent

\* C17: a tool function invoked with any flat argument mapping returns and
\* never raises, and whenever something failed (a parameter missing or
\* unexpected, a conversion, the backend) the returned value is {"error": ...}.
C17_ToolsReturnErrorNeverRaise ==
    tool.pc \notin {"idle", "call"} =>
        /\ tool.pc = "returned"
        /\ (\/ BindRaises(tool.name, tool.kwargs)
            \/ \E n \in 1..Len(tool.outcomes) : tool.outcomes[n] \in {"errors", "http_error"})
              => tool.ret.kind = "error"

\* two messages that differ at most in the arguments of their ToolCalls
SameButArgs(m1, m2) ==
    /\ m1.type = m2.type
    /\ m1.content = m2.content
    /\ m1.tool_call_id = m2.tool_call_id
    /\ Len(m1.tool_calls) = Len(m2.tool_calls)
    /\ \A n \in 1..Len(m1.tool_calls) :
          /\ m1.tool_calls[n].name = m2.tool_calls[n].name
          /\ m1.tool_calls[n].id = m2.tool_calls[n].id

\* the codename of the newest result with a top-level codename among the
\* first pos messages, Absent when there is none
OwnCodename(msgs, pos) ==
    LET hits == {n \in 1..pos : /\ msgs[n].type = "tool"
                                /\ msgs[n].content.kind = "result"
                                /\ msgs[n].content.codename # Absent}
    IN IF hits = {} THEN Absent
       ELSE msgs[CHOOSE n \in hits : \A m \in hits : m <= n].content.codename

\* the conversation of run r is what it was started on followed by what its
\* own nodes returned; its tool results answer its own ToolCalls and none of
\* another run; a recovered codename comes from its own conversation
PrivateConversation(r) ==
    LET rec == runs.run[r]
        expected == rec.start \o rec.own
    IN /\ Len(rec.messages) = Len(expected)
       /\ \A n \in 1..Len(expected) : SameButArgs(rec.messages[n], expected[n])
       /\ \A n \in 1..Len(rec.own) :
             rec.own[n].type = "tool" =>
                \A q \in Runs \ {r} :
                   /\ rec.own[n].tool_call_id \notin {runs.run[q].messages[k].tool_call_id :
                                                         k \in 1..Len(runs.run[q].messages)}
                   /\ \A k \in 1..Len(runs.run[q].messages) :
                         \A c \in 1..Len(runs.run[q].messages[k].tool_calls) :
                            runs.run[q].messages[k].tool_calls[c].id # rec.own[n].tool_call_id
       /\ \A n \in 1..Len(rec.dispatches) :
             (/\ rec.dispatches[n].name = "create_ghostwriter_project"
              /\ rec.dispatches[n].raw["codename"] = Absent) =>
                rec.dispatches[n].args["codename"] =
                   OwnCodename(rec.messages, rec.dispatches[n].pos)

\* C20: when runs of one Pipeline interleave, every run's conversation is
\* private and what the runs share (tool catalog, MAX_TURNS) is never written.
C20_RunsArePrivate ==
    /\ [](runs # NoRuns => \A r \in Runs : PrivateConversation(r))
    /\ [][runs # NoRuns => runs'.shared = runs.shared]_vars

\* both runs are under way, one with a codename result in its conversation and
\* one without, and each has dispatched a create_ghostwriter_project request:
\* the first with its own codename, the second with none
C20_Witness ==
    /\ runs # NoRuns
    /\ \A r \in Runs : runs.run[r].pc \in {"stream", "event"}
    /\ Len(runs.run[1].start) = 3
    /\ Len(runs.run[2].start) = 1
    /\ Len(runs.run[1].dispatches) = 1
    /\ Len(runs.run[2].dispatches) = 1
    /\ runs.run[1].dispatches[1].args["codename"] = RT2024
    /\ runs.run[2].dispatches[1].name = "create_ghostwriter_project"
    /\ runs.run[2].dispatches[1].args["codename"] = Absent

\* C22: the arguments the normalizer produces for a search tool hold only
\* keys that are parameters of the function bound to the tool, and a call
\* normalised to an identifier lookup reaches the tool function.
C22_NormalizedArgsReadyForDispatch ==
    \A n \in 1..Len(dispatches) :
        dispatches[n].name \in search_tools =>
            /\ DictKeys(dispatches[n].args) \subseteq Accepts(ToolFunc(dispatches[n].name))
            /\ dispatches[n].args["id"] # Absent => dispatches[n].invoked

\* C23: every dispatch either invokes the bound tool function, once and with
\* the normalised arguments, or skips it because the MCP server is unavailable
\* and then answers with the fixed "MCP server not available" error.
C23_ToolInvokedWhenAvailable ==
    \A n \in 1..Len(dispatches) :
        LET answer == messages[dispatches[n].pos + 1].content
        IN \/ /\ dispatches[n].invoked
              /\ ~dispatches[n].raised
           \/ /\ ~dispatches[n].invoked
              /\ answer.kind = "error"
              /\ answer.exc = "MCP server not available"

\* search_ghostwriter_clients has returned on an answer that holds data
ClientsReturned ==
    /\ tool.pc = "returned"
    /\ tool.name = "search_ghostwriter_clients"
    /\ tool.reply.kind = "data"

\* C21: search_ghostwriter_clients returns one record per client of the
\* backend's answer, in the answer's order, with id, name and codename of the
\* backend row; an optional field (address, note, shortName) that is null or
\* missing in the row is the empty string in the record, a set one is kept.
C21_ClientsOptionalFieldsEmpty ==
    ClientsReturned =>
        /\ tool.ret.kind = "list"
        /\ Len(tool.ret.records) = Len(tool.reply.rows)
        /\ \A n \in 1..Len(tool.reply.rows) :
              LET row == tool.reply.rows[n]
                  rec == tool.ret.records[n]
              IN /\ rec.id = row.id
                 /\ rec.name = row.name
                 /\ rec.codename = row.codename
                 /\ rec.shortName = (IF row.shortName \in {Absent, None} THEN PyStr(<<>>) ELSE row.shortName)
                 /\ rec.address = (IF row.address \in {Absent, None} THEN PyStr(<<>>) ELSE row.address)
                 /\ rec.note = (IF row.note \in {Absent, None} THEN PyStr(<<>>) ELSE row.note)

\* one matching client whose optional fields are null (address, note) and
\* missing (shortName), searched for by "Acme"
C21_Witness ==
    /\ ClientsReturned
    /\ tool.posts = <<[op |-> "search_clients", term |-> PyStr(<<"%", "Acme", "%">>)]>>
    /\ Len(tool.reply.rows) = 1
    /\ tool.reply.rows[1].address = None
    /\ tool.reply.rows[1].note = None
    /\ tool.reply.rows[1].shortName = Absent
    /\ Len(tool.ret.records) = 1
    /\ tool.ret.records[1].address = PyStr(<<>>)
    /\ tool.ret.records[1].id = PyInt(11)

\* what pipe has returned agrees with how the run ended
PipeReturned ==
    pipe_response # NoResponse =>
        /\ pc \in {"done", "raised"}
        /\ pc = "done" =>
              /\ pipe_response = result
              /\ ContentTruthy(pipe_response)
        /\ pc = "raised" =>
              /\ exc \in {"KeyError", "ValueError"}
              /\ pipe_response = PipeError(exc)

\* C24: once the run has ended, by returning or by an exception, pipe can
\* return, and what it returns is a string: run_agent's result, never empty,
\* when the run completed, and the text "Error running Ghostwriter agent: "
\* with the exception when one left the run.
C24_PipeReturnsString ==
    /\ PipeReturned
    /\ pc = "done" => ContentTruthy(result)
    /\ (Terminated /\ pipe_response = NoResponse) => ENABLED pipe_return

\* a run whose final response stayed empty: pipe returned the apology
C24_Witness ==
    /\ pc = "done"
    /\ final_response = EmptyText
    /\ pipe_response = Fallback

====
